---- MODULE Spec2Model ----
(***************************************************************************)
(* Model of the two build entry points of the repository:                  *)
(*   tools/asset_pipeline/process_assets.py   (AssetProcessor, main)       *)
(*   tools/shader_compiler/compile_shaders.py (compile_shader, main)       *)
(* One or more invocations run against one shared file system.  Each       *)
(* invocation is a process p with its own program counter and its own      *)
(* in-memory AssetProcessor.manifest.                                      *)
(***************************************************************************)
EXTENDS Naturals, Sequences, FiniteSets, TLC

\* ------------------------------------------------------------------ bounds
NumProcs == 2      \* invocations that may run at the same time
MaxFiles == 2      \* files present under the input root
MaxRuns  == 2      \* process_all_assets calls on one AssetProcessor instance

Procs == 1..NumProcs

VARIABLES
    tool,          \* which script the invocations run: "assets" | "shaders"
    active,        \* the invocations that were started
    assetsExists,  \* does the assets / --input root directory exist
    srcFiles,      \* files under the input root
    outDirs,       \* directories created under the output root
    outFiles,      \* output path -> [state, bytes]
    manifestDisk,  \* asset_manifest.json on disk: [exists, complete, assets]
    pc,            \* per process: position in the script
    passIdx,       \* per process: which process_* pass is running (1..4)
    todo,          \* per process: glob results not yet iterated
    cur,           \* per process: the file being copied / recorded
    manifest,      \* per process: self.manifest["assets"]
    success,       \* per process: what process_all_assets returned
    exitCode,      \* per process: {} while running, then {exit status}
    failed,        \* per process: assets whose processing step failed
    copied,        \* per process: copies completed in the current call
    written,       \* per process: manifest writes completed in the current call
    runs,          \* per process: process_all_assets calls started
    calls          \* per process: compile_shader calls made, in order

vars == <<tool, active, assetsExists, srcFiles, outDirs, outFiles, manifestDisk,
          pc, passIdx, todo, cur, manifest, success, exitCode, failed, copied, written,
          runs, calls>>

fsVars == <<outDirs, outFiles, manifestDisk>>
envVars == <<tool, active, assetsExists, srcFiles>>

NoFile == [dir |-> "", sub |-> "", stem |-> "", ext |-> "", bytes |-> 0]

\* ------------------------------------------------------------- file system
\* A file: first-level directory under the root, optional nested directory,
\* stem, extension (without the dot, case kept) and its content.
AssetUniverse ==
    { [dir |-> "textures", sub |-> "",    stem |-> "a", ext |-> "PNG",  bytes |-> 11],
      [dir |-> "textures", sub |-> "",    stem |-> "b", ext |-> "txt",  bytes |-> 12],
      [dir |-> "textures", sub |-> "sub", stem |-> "e", ext |-> "png",  bytes |-> 13],
      [dir |-> "models",   sub |-> "",    stem |-> "g", ext |-> "obj",  bytes |-> 14],
      [dir |-> "sounds",   sub |-> "",    stem |-> "c", ext |-> "ogg",  bytes |-> 15],
      [dir |-> "shaders",  sub |-> "",    stem |-> "d", ext |-> "glsl", bytes |-> 16],
      [dir |-> "misc",     sub |-> "",    stem |-> "f", ext |-> "png",  bytes |-> 17] }

ShaderUniverse ==
    { [dir |-> "",    sub |-> "",    stem |-> "a", ext |-> "hlsl", bytes |-> 21],
      [dir |-> "",    sub |-> "",    stem |-> "a", ext |-> "glsl", bytes |-> 22],
      [dir |-> "fx",  sub |-> "",    stem |-> "b", ext |-> "hlsl", bytes |-> 23],
      [dir |-> "fx",  sub |-> "sub", stem |-> "c", ext |-> "glsl", bytes |-> 24],
      [dir |-> "",    sub |-> "",    stem |-> "r", ext |-> "txt",  bytes |-> 25] }

Universe(t) == IF t = "assets" THEN AssetUniverse ELSE ShaderUniverse

Put(fn, k, v) == [x \in (DOMAIN fn) \cup {k} |-> IF x = k THEN v ELSE fn[x]]

\* str.lower() on the extensions that occur
Lower(e) ==
    CASE e = "PNG" -> "png"
      [] e = "OGG" -> "ogg"
      [] OTHER     -> e

\* ---------------------------------------------------------- process_assets
PassDirs == <<"textures", "models", "sounds", "shaders">>

TypeTag(d) ==
    CASE d = "textures" -> "texture"
      [] d = "models"   -> "model"
      [] d = "sounds"   -> "audio"
      [] d = "shaders"  -> "shader"

Accepted(d) ==
    CASE d = "textures" -> {"png", "jpg", "jpeg", "tga", "bmp"}
      [] d = "models"   -> {"obj", "fbx", "gltf", "dae"}
      [] d = "sounds"   -> {"wav", "ogg", "mp3"}
      [] d = "shaders"  -> {"glsl", "vert", "frag", "hlsl"}

\* <assets>/<d> exists when something lives under it
SubdirExists(d) == \E f \in srcFiles : f.dir = d

\* the entry glob("*") yields for a nested directory: a name without suffix
DirEntry(d, s) == [dir |-> d, sub |-> "", stem |-> s, ext |-> "", bytes |-> 0]

\* Path(<assets>/<d>).glob("*"): the direct children, files and directories
Glob(d) ==
    { f \in srcFiles : f.dir = d /\ f.sub = "" }
      \cup { DirEntry(d, f.sub) : f \in { g \in srcFiles : g.dir = d /\ g.sub # "" } }

\* variant: the suffix is compared without lower()
IsAcceptedCaseSensitive(d, f) == f.ext \in Accepted(d)

\* suffix.lower() in [...]
IsAccepted(d, f) == Lower(f.ext) \in Accepted(d)

SrcPath(f) == [root |-> "assets", dir |-> f.dir, stem |-> f.stem, ext |-> f.ext]
OutPath(d, f) == [root |-> "processed_assets", dir |-> d, stem |-> f.stem, ext |-> f.ext]

Entry(d, f) == [type |-> TypeTag(d), source |-> SrcPath(f), output |-> OutPath(d, f)]

Running(p) == p \in active /\ pc[p] \notin {"returned", "exited", "killed"}

\* another invocation is between open and close of the same output file
OtherCopying(p, path) ==
    \E q \in active \ {p} : pc[q] = "copying" /\ OutPath(PassDirs[passIdx[q]], cur[q]) = path

\* AssetProcessor() in main: self.manifest = {"assets": []}
AssetProcessorInit == << >>

\* process_all_assets, lines 19-28: the root check and the mkdir
ProcessAllAssets(p) ==
    /\ tool = "assets" /\ p \in active /\ pc[p] = "start"
    /\ runs' = [runs EXCEPT ![p] = @ + 1]
    /\ copied' = [copied EXCEPT ![p] = 0]
    /\ written' = [written EXCEPT ![p] = 0]
    /\ IF ~assetsExists
         THEN /\ pc' = [pc EXCEPT ![p] = "returned"]
              /\ success' = [success EXCEPT ![p] = FALSE]
              /\ UNCHANGED <<outDirs, passIdx>>
         ELSE /\ outDirs' = outDirs \cup {"."}
              /\ pc' = [pc EXCEPT ![p] = "pass"]
              /\ passIdx' = [passIdx EXCEPT ![p] = 1]
              /\ UNCHANGED success
    /\ UNCHANGED <<envVars, outFiles, manifestDisk, todo, cur, manifest, exitCode,
                   failed, calls>>

\* where control goes when pass i is over: the next pass, or generate_manifest
AfterPass(p, i) ==
    IF i < Len(PassDirs)
      THEN /\ pc' = [pc EXCEPT ![p] = "pass"]
           /\ passIdx' = [passIdx EXCEPT ![p] = i + 1]
      ELSE /\ pc' = [pc EXCEPT ![p] = "manifest"]
           /\ UNCHANGED passIdx

\* process_textures / _models / _audio / _shaders up to the loop:
\* return when the source directory is absent, else mkdir and glob
PassBegin(p) ==
    /\ tool = "assets" /\ p \in active /\ pc[p] = "pass"
    /\ LET d == PassDirs[passIdx[p]] IN
         IF ~SubdirExists(d)
           THEN /\ AfterPass(p, passIdx[p])
                /\ UNCHANGED <<outDirs, todo>>
           ELSE /\ outDirs' = outDirs \cup {d}
                /\ todo' = [todo EXCEPT ![p] = Glob(d)]
                /\ pc' = [pc EXCEPT ![p] = "loop"]
                /\ UNCHANGED passIdx
    /\ UNCHANGED <<envVars, outFiles, manifestDisk, cur, manifest, success, exitCode,
                   failed, copied, written, runs, calls>>

\* loop body, suffix not in the accepted list: nothing happens
SkipFile(p) ==
    /\ tool = "assets" /\ p \in active /\ pc[p] = "loop"
    /\ \E f \in todo[p] :
         /\ ~IsAccepted(PassDirs[passIdx[p]], f)
         /\ todo' = [todo EXCEPT ![p] = @ \ {f}]
    /\ UNCHANGED <<envVars, fsVars, pc, passIdx, cur, manifest, success, exitCode,
                   failed, copied, written, runs, calls>>

\* shutil.copy2, first half: the destination is opened for writing (truncated)
CopyBegin(p) ==
    /\ tool = "assets" /\ p \in active /\ pc[p] = "loop"
    /\ \E f \in todo[p] :
         LET d == PassDirs[passIdx[p]] IN
         /\ IsAccepted(d, f)
         /\ todo' = [todo EXCEPT ![p] = @ \ {f}]
         /\ cur' = [cur EXCEPT ![p] = f]
         /\ outFiles' = Put(outFiles, OutPath(d, f), [state |-> "partial", bytes |-> 0])
    /\ pc' = [pc EXCEPT ![p] = "copying"]
    /\ UNCHANGED <<envVars, outDirs, manifestDisk, passIdx, manifest, success,
                   exitCode, failed, copied, written, runs, calls>>

\* shutil.copy2, second half: the bytes are written and the file closed.
\* When another invocation has the same destination open the two writers
\* race, and the file may be left incomplete.
CopyEnd(p) ==
    /\ tool = "assets" /\ p \in active /\ pc[p] = "copying"
    /\ LET d    == PassDirs[passIdx[p]]
           path == OutPath(d, cur[p])
           done == [state |-> "complete", bytes |-> cur[p].bytes]
       IN  \/ outFiles' = Put(outFiles, path, done)
           \/ /\ OtherCopying(p, path)
              /\ outFiles' = Put(outFiles, path, [state |-> "partial", bytes |-> 0])
    /\ copied' = [copied EXCEPT ![p] = @ + 1]
    /\ pc' = [pc EXCEPT ![p] = "record"]
    /\ UNCHANGED <<envVars, outDirs, manifestDisk, passIdx, todo, cur, manifest,
                   success, exitCode, failed, written, runs, calls>>

\* self.manifest["assets"].append({...})
RecordEntry(p) ==
    /\ tool = "assets" /\ p \in active /\ pc[p] = "record"
    /\ manifest' = [manifest EXCEPT ![p] = Append(@, Entry(PassDirs[passIdx[p]], cur[p]))]
    /\ cur' = [cur EXCEPT ![p] = NoFile]
    /\ pc' = [pc EXCEPT ![p] = "loop"]
    /\ UNCHANGED <<envVars, fsVars, passIdx, todo, success, exitCode, failed, copied,
                   written, runs, calls>>

\* the for loop is exhausted
LoopEnd(p) ==
    /\ tool = "assets" /\ p \in active /\ pc[p] = "loop"
    /\ todo[p] = {}
    /\ AfterPass(p, passIdx[p])
    /\ UNCHANGED <<envVars, fsVars, todo, cur, manifest, success, exitCode, failed,
                   copied, written, runs, calls>>

\* variant: the exception is caught inside the loop and the loop goes on
CopyRaiseSwallowed(p) ==
    /\ tool = "assets" /\ p \in active /\ pc[p] = "loop"
    /\ \E f \in todo[p] :
         /\ IsAccepted(PassDirs[passIdx[p]], f)
         /\ todo' = [todo EXCEPT ![p] = @ \ {f}]
    /\ failed' = [failed EXCEPT ![p] = @ + 1]
    /\ UNCHANGED <<envVars, fsVars, pc, passIdx, cur, manifest, success, exitCode,
                   copied, written, runs, calls>>

\* shutil.copy2 raises before the destination is touched (unreadable source).
\* Nothing catches it: it leaves process_all_assets and main, and the
\* interpreter ends the process with status 1.
CopyRaiseOpen(p) ==
    /\ tool = "assets" /\ p \in active /\ pc[p] = "loop"
    /\ \E f \in todo[p] :
         /\ IsAccepted(PassDirs[passIdx[p]], f)
         /\ cur' = [cur EXCEPT ![p] = f]
    /\ failed' = [failed EXCEPT ![p] = @ + 1]
    /\ pc' = [pc EXCEPT ![p] = "exited"]
    /\ exitCode' = [exitCode EXCEPT ![p] = {1}]
    /\ UNCHANGED <<envVars, fsVars, passIdx, todo, manifest, success, copied, written,
                   runs, calls>>

\* shutil.copy2 raises while writing (disk full): the destination stays cut short
CopyRaiseWrite(p) ==
    /\ tool = "assets" /\ p \in active /\ pc[p] = "copying"
    /\ failed' = [failed EXCEPT ![p] = @ + 1]
    /\ pc' = [pc EXCEPT ![p] = "exited"]
    /\ exitCode' = [exitCode EXCEPT ![p] = {1}]
    /\ UNCHANGED <<envVars, fsVars, passIdx, todo, cur, manifest, success, copied,
                   written, runs, calls>>

\* ------------------------------------------------------- generate_manifest
Absent == [state |-> "absent", assets |-> << >>]
Truncated == [state |-> "partial", assets |-> << >>]
Dumped(m) == [state |-> "complete", assets |-> m]

\* another invocation is between open and close of the manifest file
OtherDumping(p) == \E q \in active \ {p} : pc[q] = "dumping"

\* open(manifest_file, 'w'): the file is created or truncated in place
ManifestOpen(p) ==
    /\ tool = "assets" /\ p \in active /\ pc[p] = "manifest"
    /\ manifestDisk' = Truncated
    /\ pc' = [pc EXCEPT ![p] = "dumping"]
    /\ UNCHANGED <<envVars, outDirs, outFiles, passIdx, todo, cur, manifest, success,
                   exitCode, failed, copied, written, runs, calls>>

\* json.dump and the close of the with block, then "return True".
\* A second writer of the same file makes the content a race.
ManifestDump(p) ==
    /\ tool = "assets" /\ p \in active /\ pc[p] = "dumping"
    /\ \/ manifestDisk' = Dumped(manifest[p])
       \/ /\ (OtherDumping(p) \/ manifestDisk # Truncated)
          /\ manifestDisk' = [state |-> "partial", assets |-> manifest[p]]
    /\ written' = [written EXCEPT ![p] = @ + 1]
    /\ success' = [success EXCEPT ![p] = TRUE]
    /\ pc' = [pc EXCEPT ![p] = "returned"]
    /\ UNCHANGED <<envVars, outDirs, outFiles, passIdx, todo, cur, manifest, exitCode,
                   failed, copied, runs, calls>>

\* -------------------------------------------------------------------- main
\* sys.exit(0 if success else 1)
MainExitCode(ok) == IF ok THEN 0 ELSE 1

MainExit(p) ==
    /\ tool = "assets" /\ p \in active /\ pc[p] = "returned"
    /\ runs[p] = 1
    /\ exitCode' = [exitCode EXCEPT ![p] = {MainExitCode(success[p])}]
    /\ pc' = [pc EXCEPT ![p] = "exited"]
    /\ UNCHANGED <<envVars, fsVars, passIdx, todo, cur, manifest, success, failed,
                   copied, written, runs, calls>>

\* a caller that keeps the AssetProcessor calls process_all_assets again
CallAgain(p) ==
    /\ tool = "assets" /\ p \in active /\ pc[p] = "returned"
    /\ runs[p] < MaxRuns
    /\ pc' = [pc EXCEPT ![p] = "start"]
    /\ UNCHANGED <<envVars, fsVars, passIdx, todo, cur, manifest, success, exitCode,
                   failed, copied, written, runs, calls>>

\* the process is killed at any point of a run
Kill(p) ==
    /\ Running(p) /\ pc[p] # "start"
    /\ pc' = [pc EXCEPT ![p] = "killed"]
    /\ UNCHANGED <<envVars, fsVars, passIdx, todo, cur, manifest, success, exitCode,
                   failed, copied, written, runs, calls>>

\* --------------------------------------------------------- compile_shaders
\* variant: a compiler that rejects some input
compile_shader_rejecting(input_file, output_file, shader_type) == input_file.ext # "glsl"

\* compile_shader: prints, compiles nothing, returns True
compile_shader(input_file, output_file, shader_type) == TRUE

\* input_dir.glob('**/*.hlsl') and glob('**/*.glsl'): any depth
ShaderFiles == { f \in srcFiles : f.ext = "hlsl" } \cup { f \in srcFiles : f.ext = "glsl" }

\* output_dir / shader_file.relative_to(input_dir).with_suffix('.spv')
SpvPath(f) == [root |-> "out", dir |-> f.dir, sub |-> f.sub, stem |-> f.stem, ext |-> "spv"]

\* main up to the loop: the input check, the mkdir and the two globs
ShaderMain(p) ==
    /\ tool = "shaders" /\ p \in active /\ pc[p] = "start"
    /\ IF ~assetsExists
         THEN /\ pc' = [pc EXCEPT ![p] = "exited"]
              /\ exitCode' = [exitCode EXCEPT ![p] = {1}]
              /\ UNCHANGED <<outDirs, todo>>
         ELSE /\ outDirs' = outDirs \cup {"."}
              /\ todo' = [todo EXCEPT ![p] = ShaderFiles]
              /\ pc' = [pc EXCEPT ![p] = "compile"]
              /\ UNCHANGED exitCode
    /\ UNCHANGED <<envVars, outFiles, manifestDisk, passIdx, cur, manifest, success,
                   failed, copied, written, runs, calls>>

\* one iteration of the loop; the list holds the .hlsl files before the .glsl
ShaderCompile(p) ==
    /\ tool = "shaders" /\ p \in active /\ pc[p] = "compile"
    /\ \E f \in todo[p] :
         /\ f.ext = "hlsl" \/ \A g \in todo[p] : g.ext # "hlsl"
         /\ todo' = [todo EXCEPT ![p] = @ \ {f}]
         /\ calls' = [calls EXCEPT ![p] =
                        Append(@, [input |-> f, output |-> SpvPath(f), type |-> "vertex"])]
         /\ IF compile_shader(f, SpvPath(f), "vertex")
              THEN UNCHANGED <<pc, exitCode, failed>>
              ELSE /\ pc' = [pc EXCEPT ![p] = "exited"]
                   /\ exitCode' = [exitCode EXCEPT ![p] = {1}]
                   /\ failed' = [failed EXCEPT ![p] = @ + 1]
    /\ UNCHANGED <<envVars, fsVars, passIdx, cur, manifest, success, copied, written,
                   runs>>

\* the loop is over: "Successfully compiled", return 0
ShaderDone(p) ==
    /\ tool = "shaders" /\ p \in active /\ pc[p] = "compile"
    /\ todo[p] = {}
    /\ pc' = [pc EXCEPT ![p] = "exited"]
    /\ exitCode' = [exitCode EXCEPT ![p] = {0}]
    /\ UNCHANGED <<envVars, fsVars, passIdx, todo, cur, manifest, success, failed,
                   copied, written, runs, calls>>

\* ----------------------------------------------------------- specification
Init ==
    /\ tool \in {"assets", "shaders"}
    /\ active \in { 1..k : k \in Procs }
    /\ assetsExists \in BOOLEAN
    /\ srcFiles \in { S \in SUBSET Universe(tool) :
                        /\ Cardinality(S) <= MaxFiles
                        /\ (~assetsExists => S = {}) }
    /\ outDirs = {}
    /\ outFiles = [x \in {} |-> Absent]
    /\ manifestDisk = Absent
    /\ pc = [p \in Procs |-> "start"]
    /\ passIdx = [p \in Procs |-> 1]
    /\ todo = [p \in Procs |-> {}]
    /\ cur = [p \in Procs |-> NoFile]
    /\ manifest = [p \in Procs |-> AssetProcessorInit]
    /\ success = [p \in Procs |-> FALSE]
    /\ exitCode = [p \in Procs |-> {}]
    /\ failed = [p \in Procs |-> 0]
    /\ copied = [p \in Procs |-> 0]
    /\ written = [p \in Procs |-> 0]
    /\ runs = [p \in Procs |-> 0]
    /\ calls = [p \in Procs |-> << >>]

Next ==
    \E p \in Procs :
        \/ ProcessAllAssets(p)
        \/ PassBegin(p)
        \/ SkipFile(p)
        \/ CopyBegin(p)
        \/ CopyEnd(p)
        \/ RecordEntry(p)
        \/ LoopEnd(p)
        \/ CopyRaiseOpen(p)
        \/ CopyRaiseWrite(p)
        \/ ManifestOpen(p)
        \/ ManifestDump(p)
        \/ MainExit(p)
        \/ CallAgain(p)
        \/ Kill(p)
        \/ ShaderMain(p)
        \/ ShaderCompile(p)
        \/ ShaderDone(p)

Spec == Init /\ [][Next]_vars

\* one invocation at a time
InitSolo == Init /\ active = {1}

SpecSolo == InitSolo /\ [][Next]_vars

\* ------------------------------------------------------------------ claims
Finished(p) == p \in active /\ pc[p] = "exited"

FourDirs == {"textures", "models", "sounds", "shaders"}

\* a file the pipeline is to copy: directly inside one of the four
\* directories, with a lower-cased extension of that directory's type
Eligible(f) == f.dir \in FourDirs /\ f.sub = "" /\ Lower(f.ext) \in Accepted(f.dir)

MirrorPath(f) == [root |-> "processed_assets", dir |-> f.dir, stem |-> f.stem, ext |-> f.ext]

OnDisk(path, bytes) ==
    path \in DOMAIN outFiles /\ outFiles[path] = [state |-> "complete", bytes |-> bytes]

SourceOf(f) == [root |-> "assets", dir |-> f.dir, stem |-> f.stem, ext |-> f.ext]

EntriesFor(m, f) == { i \in DOMAIN m : m[i].source = SourceOf(f) }

\* C1: when the root directory exists, a finished run of either entry point
\* has exit code 0 or 1, and it is 0 exactly when no asset's processing
\* step failed.
C1_ExitCodeReflectsFailures ==
    \A p \in active :
        (Finished(p) /\ assetsExists) =>
            /\ exitCode[p] \in {{0}, {1}}
            /\ (exitCode[p] = {0}) <=> (failed[p] = 0)

C1_Witness ==
    \E p \in active :
        /\ tool = "assets" /\ Finished(p) /\ assetsExists
        /\ failed[p] = 1 /\ exitCode[p] = {1}

\* C2: when one asset's processing fails, every other discovered asset is
\* still written and recorded, the manifest is persisted, and the run
\* reports exactly one failure.
C2_FailureIsolation ==
    \A p \in active :
        (tool = "assets" /\ Finished(p) /\ failed[p] > 0) =>
            /\ failed[p] = 1
            /\ manifestDisk = Dumped(manifest[p])
            /\ \A f \in srcFiles :
                 (Eligible(f) /\ f # cur[p]) =>
                     /\ OnDisk(MirrorPath(f), f.bytes)
                     /\ EntriesFor(manifest[p], f) # {}

\* C3: a second process_all_assets over unchanged sources copies nothing.
C3_SecondRunCopiesNothing ==
    \A p \in active :
        (tool = "assets" /\ pc[p] = "returned" /\ success[p] /\ runs[p] >= 2) =>
            copied[p] = 0

\* C4: once the process has been killed, the manifest file on disk is either
\* absent / as before the run, or a complete manifest; never cut short.
C4_ManifestCrashSafe ==
    \A p \in active :
        (tool = "assets" /\ pc[p] = "killed") =>
            manifestDisk.state \in {"absent", "complete"}

\* C5: two invocations never have the same output file, or the manifest
\* file, open for writing at the same time.
C5_MutualExclusion ==
    \A p \in active : \A q \in active \ {p} :
        /\ ~(pc[p] = "dumping" /\ pc[q] = "dumping")
        /\ ~(/\ pc[p] = "copying" /\ pc[q] = "copying"
             /\ MirrorPath(cur[p]) = MirrorPath(cur[q]))

\* C6: a run that found two distinct sources with one output identity ends
\* with exit code 2.
C6_DuplicateDetection ==
    \A p \in active :
        (/\ tool = "shaders" /\ Finished(p)
         /\ \E f, g \in srcFiles :
              /\ f # g
              /\ {f.ext, g.ext} \subseteq {"hlsl", "glsl"}
              /\ f.dir = g.dir /\ f.sub = g.sub /\ f.stem = g.stem)
            => exitCode[p] = {2}

\* C7: the in-memory manifest never holds two entries for one source path.
C7_ManifestUnique ==
    \A p \in active :
        \A i, j \in DOMAIN manifest[p] :
            (manifest[p][i].source = manifest[p][j].source) => i = j

\* C8: with the root directory missing the run ends with exit code 2 and
\* has created nothing.
C8_BadRootExitsTwo ==
    \A p \in active :
        (Finished(p) /\ ~assetsExists) =>
            /\ exitCode[p] = {2}
            /\ outDirs = {} /\ DOMAIN outFiles = {} /\ manifestDisk = Absent

\* C9: the shader script never creates an output file; every compile_shader
\* call succeeds; a finished run over an existing input directory made one
\* call per .hlsl/.glsl file at any depth and returned 0; a non-zero return
\* happens only when the input directory is missing.
C9_PlaceholderCompiler ==
    tool = "shaders" =>
        /\ DOMAIN outFiles = {}
        /\ \A p \in active :
             /\ failed[p] = 0
             /\ \A i \in DOMAIN calls[p] :
                  /\ calls[p][i].input \in srcFiles
                  /\ calls[p][i].input.ext \in {"hlsl", "glsl"}
             /\ Finished(p) =>
                  IF assetsExists
                    THEN /\ exitCode[p] = {0}
                         /\ \A f \in srcFiles :
                              Cardinality({ i \in DOMAIN calls[p] : calls[p][i].input = f })
                                = IF f.ext \in {"hlsl", "glsl"} THEN 1 ELSE 0
                    ELSE /\ exitCode[p] = {1}
                         /\ calls[p] = << >>

C9_Witness ==
    \E p \in active :
        /\ tool = "shaders" /\ Finished(p) /\ exitCode[p] = {0}
        /\ Len(calls[p]) >= 2
        /\ \E i \in DOMAIN calls[p] : calls[p][i].input.sub # ""

\* C10: one invocation, first call on a fresh AssetProcessor.  While it runs,
\* every manifest entry's output is already complete on disk and the manifest
\* file is untouched until the four passes are over.  After it returned
\* True: each eligible file has exactly one verbatim copy at the mirrored
\* path and exactly one entry with its type tag, source and output; every
\* other file has neither; the manifest file was written once.
C10_MirroredLayout ==
    (tool = "assets" /\ active = {1} /\ runs[1] = 1) =>
        /\ \A i \in DOMAIN manifest[1] :
             \E f \in srcFiles :
                 /\ manifest[1][i].source = SourceOf(f)
                 /\ OnDisk(manifest[1][i].output, f.bytes)
        /\ pc[1] \in {"pass", "loop", "copying", "record", "manifest"} =>
             manifestDisk = Absent /\ written[1] = 0
        /\ (pc[1] \in {"returned", "exited"} /\ success[1]) =>
             /\ written[1] = 1
             /\ manifestDisk = Dumped(manifest[1])
             /\ Cardinality(DOMAIN outFiles) = Cardinality({ f \in srcFiles : Eligible(f) })
             /\ Len(manifest[1]) = Cardinality({ f \in srcFiles : Eligible(f) })
             /\ \A f \in srcFiles :
                  IF Eligible(f)
                    THEN /\ OnDisk(MirrorPath(f), f.bytes)
                         /\ \E i \in DOMAIN manifest[1] :
                              /\ EntriesFor(manifest[1], f) = {i}
                              /\ manifest[1][i] =
                                   [type |-> TypeTag(f.dir), source |-> SourceOf(f),
                                    output |-> MirrorPath(f)]
                    ELSE /\ MirrorPath(f) \notin DOMAIN outFiles
                         /\ EntriesFor(manifest[1], f) = {}

C10_Witness ==
    /\ tool = "assets" /\ active = {1} /\ runs[1] = 1
    /\ pc[1] = "returned" /\ success[1]
    /\ \E f \in srcFiles : Eligible(f) /\ f.ext # Lower(f.ext)
    /\ \E f \in srcFiles : ~Eligible(f)
    /\ Len(manifest[1]) = 1

====
